---------------------------- MODULE Spec2Model ----------------------------
(***************************************************************************)
(* A model of the Tableau hook                                             *)
(* (providers/tableau/src/airflow/providers/tableau/hooks/tableau.py):     *)
(*   - parse_boolean and TableauHook.__init__       (specification SpecInit) *)
(*   - TableauHook.get_conn                         (specification SpecConn) *)
(*   - TableauHook.__enter__ / __exit__           (specification SpecScoped) *)
(*   - TableauHook.get_all and the pagers it returns (specification SpecAll) *)
(*   - get_job_status / wait_for_state   (specifications SpecWait, FairWait) *)
(*                                                                         *)
(* Strings that the code inspects character by character (the verify       *)
(* option) are sequences of one-character strings.  Calls into the server  *)
(* client library (sign_in, sign_out, jobs.get_by_id, reading the token    *)
(* file) are taken to complete; what they are called with is recorded.     *)
(***************************************************************************)
EXTENDS Integers, Sequences, FiniteSets, TLC

\* ------------------------------------------------------------------------
\* Bounds
\* ------------------------------------------------------------------------
MaxLen == 2        \* longest free-form verify string drawn over Alphabet
MaxPolls == 3      \* cap on the sleep counter of one wait_for_state call
MaxDepth == 2      \* deepest nesting of scoped blocks on one hook
MaxCalls == 4      \* cap on sign-in/sign-out calls recorded on the client
MaxPagers == 2     \* pagers handed out by get_all that are tracked
MaxPages == 2      \* pages one pager may be advanced by

\* ------------------------------------------------------------------------
\* Python values of the verify / cert options: None, a bool or a string
\* ------------------------------------------------------------------------
PyNone == [t |-> "none", b |-> FALSE, s |-> <<>>]
PyBool(b) == [t |-> "bool", b |-> b, s |-> <<>>]
PyStr(s) == [t |-> "str", b |-> FALSE, s |-> s]
KeyAbsent == [t |-> "absent", b |-> FALSE, s |-> <<>>]
Unset == [t |-> "unset", b |-> FALSE, s |-> <<>>]

\* str.lower() on one character: upper-case letters map to their lower-case
\* letter, every other character maps to itself.
LowerChar(c) ==
    CASE c = "A" -> "a" [] c = "C" -> "c" [] c = "E" -> "e" [] c = "F" -> "f"
      [] c = "L" -> "l" [] c = "N" -> "n" [] c = "O" -> "o" [] c = "R" -> "r"
      [] c = "S" -> "s" [] c = "T" -> "t" [] c = "U" -> "u" [] c = "Y" -> "y"
      [] OTHER -> c

\* str.upper() on one character (used only to enumerate the casings of a token)
UpperChar(c) ==
    CASE c = "a" -> "A" [] c = "c" -> "C" [] c = "e" -> "E" [] c = "f" -> "F"
      [] c = "l" -> "L" [] c = "n" -> "N" [] c = "o" -> "O" [] c = "r" -> "R"
      [] c = "s" -> "S" [] c = "t" -> "T" [] c = "u" -> "U" [] c = "y" -> "Y"
      [] OTHER -> c

\* str.lower()
Lower(s) == [i \in 1..Len(s) |-> LowerChar(s[i])]

TrueTokens ==
    { <<"y">>, <<"y","e","s">>, <<"t">>, <<"t","r","u","e">>, <<"o","n">>, <<"1">> }

FalseTokens ==
    { <<"n">>, <<"n","o">>, <<"f">>, <<"f","a","l","s","e">>, <<"o","f","f">>, <<"0">> }

\* parse_boolean: val is rebound to val.lower(); the tests and the final
\* return all use the rebound value.
parse_boolean(val) ==
    LET v == Lower(val)
    IN  IF v \in TrueTokens THEN PyBool(TRUE)
        ELSE IF v \in FalseTokens THEN PyBool(FALSE)
        ELSE PyStr(v)

\* Every casing of a token
Casings(tok) ==
    { [i \in 1..Len(tok) |-> IF m[i] THEN UpperChar(tok[i]) ELSE tok[i]] :
        m \in [1..Len(tok) -> BOOLEAN] }

Alphabet == { "/", "c", "C", "a", "A", "y", "Y", "1" }

FreeStrings == UNION { [1..n -> Alphabet] : n \in 0..MaxLen }

VerifyStrings ==
    FreeStrings \cup UNION { Casings(tok) : tok \in TrueTokens \cup FalseTokens }

VerifyOptions ==
    { KeyAbsent, PyBool(TRUE), PyBool(FALSE) } \cup { PyStr(s) : s \in VerifyStrings }

CertOptions == { KeyAbsent, PyStr(<<"/", "c">>) }

\* dict.get(key, default)
DictGet(v, default) == IF v.t = "absent" THEN default ELSE v

VARIABLES
    extraVerify,    \* conn.extra_dejson["verify"], or KeyAbsent
    extraCert,      \* conn.extra_dejson["cert"], or KeyAbsent
    httpOptions,    \* options handed to server.add_http_options, or Unset
    login,          \* conn.login
    password,       \* conn.password
    extra,          \* conn.extra_dejson: auth, jwt_file, jwt_token
    jwt_token,      \* self.jwt_token
    tableau_conn,   \* self.tableau_conn
    signedIn,       \* the server client holds a live session
    authLog,        \* sign_in / sign_out calls made on server.auth, in order
    lastAuth,       \* argument of the last sign_in call
    outcome,        \* how the last get_conn / __enter__ ended
    depth,          \* scoped blocks currently entered on the hook
    excIn,          \* exception the last exited block body ended with
    excOut,         \* exception leaving the last exited with statement
    allCalls,       \* get_all calls made
    pagers,         \* pagers returned by get_all, each with its position
    pageRequests,   \* page requests issued to the server
    allOutcome,     \* how the last get_all ended
    jobCode,        \* finish code of the job on the remote server
    pc,             \* position of the wait_for_state call
    target_state,   \* target_state argument
    finish_code,    \* local finish_code of wait_for_state
    fetches,        \* get_job_status calls made by the current call
    sleeps,         \* time.sleep calls made by the current call
    result          \* value returned by wait_for_state, or the error raised

initVars == <<extraVerify, extraCert, httpOptions>>
connVars == <<login, password, extra, jwt_token, tableau_conn, signedIn, authLog,
              lastAuth, outcome, depth, excIn, excOut>>
allVars == <<allCalls, pagers, pageRequests, allOutcome>>
waitVars == <<jobCode, pc, target_state, finish_code, fetches, sleeps, result>>
vars == <<initVars, connVars, allVars, waitVars>>

\* ------------------------------------------------------------------------
\* The connection descriptor
\* ------------------------------------------------------------------------
None == "<None>"
Absent == "<absent>"          \* key not in the options mapping
NoAttr == "<no attribute>"    \* attribute never assigned on the hook
Handle == "<contextmgr>"      \* what server.auth.sign_in returns
NoCall == [method |-> "<no call>", username |-> None, password |-> None, jwt |-> None]
NoOutcome == [raised |-> "<not called>", msg |-> <<>>, token |-> NoAttr, call |-> NoCall]

Logins == { None, "", "user" }
Passwords == { None, "", "pw" }
Extras == [ auth : { Absent, "jwt", "basic" },
            jwt_file : { Absent, "/a", "/b" },
            jwt_token : { Absent, "", "tokA" } ]

\* Path(p).read_text()
FileText == [ p \in { "/a", "/b" } |-> IF p = "/a" THEN "tokA" ELSE "tokB" ]

\* truth value of an optional string
Truthy(v) == v \notin { None, "" }

password_auth_set(l, p) == Truthy(l) /\ Truthy(p)

\* extra.get("auth") == "jwt"
jwt_auth_set(e) == e.auth = "jwt"

\* airflow.utils.helpers.exactly_one on two booleans
exactly_one(a, b) == (a /\ ~b) \/ (~a /\ b)

Raise(exc, msg, tok) == [raised |-> exc, msg |-> msg, token |-> tok, call |-> NoCall]

_auth_via_password(l, p, tok) ==
    [raised |-> "", msg |-> <<>>, token |-> tok,
     call |-> [method |-> "password", username |-> l, password |-> p, jwt |-> None]]

_auth_via_jwt(tok) ==
    [raised |-> "", msg |-> <<>>, token |-> tok,
     call |-> [method |-> "jwt", username |-> None, password |-> None, jwt |-> tok]]

JwtMsgHead == "When auth set to 'jwt' then expected exactly one parameter 'jwt_file' or 'jwt_token' in connection extra, but "

\* A plausible slip: the password branch is taken before the exclusivity test.
get_conn_password_first(l, p, e, tok) ==
    IF password_auth_set(l, p) THEN _auth_via_password(l, p, tok)
    ELSE IF jwt_auth_set(e)
    THEN LET jwt_file_in == e.jwt_file # Absent
             jwt_token_in == e.jwt_token # Absent
         IN  IF ~exactly_one(jwt_file_in, jwt_token_in)
             THEN Raise("ValueError",
                        <<JwtMsgHead, IF jwt_file_in /\ jwt_token_in
                                      THEN "provided both."
                                      ELSE "none of them provided.">>, tok)
             ELSE IF jwt_file_in THEN _auth_via_jwt(FileText[e.jwt_file])
             ELSE _auth_via_jwt(e.jwt_token)
    ELSE Raise("NotImplementedError", <<>>, tok)

\* A plausible slip: the file/token test looks at the truth of the values
\* and prefers the literal token, without the exactly-one check.
get_conn_prefer_token(l, p, e, tok) ==
    IF password_auth_set(l, p) /\ jwt_auth_set(e) THEN Raise("AirflowException", <<>>, tok)
    ELSE IF password_auth_set(l, p) THEN _auth_via_password(l, p, tok)
    ELSE IF jwt_auth_set(e)
    THEN IF e.jwt_token # Absent THEN _auth_via_jwt(e.jwt_token)
         ELSE IF e.jwt_file # Absent THEN _auth_via_jwt(FileText[e.jwt_file])
         ELSE Raise("ValueError", <<JwtMsgHead, "none of them provided.">>, tok)
    ELSE Raise("NotImplementedError", <<>>, tok)

\* get_conn on descriptor (l, p, e) with self.jwt_token = tok: the exception
\* raised (or ""), its message, self.jwt_token afterwards and the sign_in call.
get_conn(l, p, e, tok) ==
    IF password_auth_set(l, p) /\ jwt_auth_set(e) THEN Raise("AirflowException", <<>>, tok)
    ELSE IF password_auth_set(l, p) THEN _auth_via_password(l, p, tok)
    ELSE IF jwt_auth_set(e)
    THEN LET jwt_file_in == e.jwt_file # Absent
             jwt_token_in == e.jwt_token # Absent
         IN  IF ~exactly_one(jwt_file_in, jwt_token_in)
             THEN Raise("ValueError",
                        <<JwtMsgHead, IF jwt_file_in /\ jwt_token_in
                                      THEN "provided both."
                                      ELSE "none of them provided.">>, tok)
             ELSE IF jwt_file_in THEN _auth_via_jwt(FileText[e.jwt_file])
             ELSE _auth_via_jwt(e.jwt_token)
    ELSE Raise("NotImplementedError", <<>>, tok)

\* http options of a hook built from a descriptor without verify and cert
DefaultHttpOptions == [verify |-> PyBool(TRUE), cert |-> PyNone]

\* ------------------------------------------------------------------------
\* TableauHook.__init__
\* ------------------------------------------------------------------------
\* __init__: verify defaults to True, a string verify goes through
\* parse_boolean, and both options are handed to add_http_options.
Construct ==
    /\ httpOptions = Unset
    /\ LET verify == DictGet(extraVerify, PyBool(TRUE))
       IN  httpOptions' =
             [verify |-> IF verify.t = "str" THEN parse_boolean(verify.s) ELSE verify,
              cert |-> DictGet(extraCert, PyNone)]
    /\ UNCHANGED <<extraVerify, extraCert, connVars, allVars, waitVars>>

\* ------------------------------------------------------------------------
\* TableauHook.get_conn called on its own
\* ------------------------------------------------------------------------
GetConn ==
    /\ Len(authLog) < MaxCalls
    /\ LET r == get_conn(login, password, extra, jwt_token)
       IN  /\ outcome' = r
           /\ jwt_token' = r.token
           /\ IF r.raised = ""
              THEN /\ authLog' = Append(authLog, "in")
                   /\ lastAuth' = r.call
                   /\ signedIn' = TRUE
              ELSE UNCHANGED <<authLog, lastAuth, signedIn>>
    /\ UNCHANGED <<login, password, extra, tableau_conn, depth, excIn, excOut>>
    /\ UNCHANGED <<initVars, allVars, waitVars>>

\* ------------------------------------------------------------------------
\* TableauHook.__enter__ / __exit__
\* ------------------------------------------------------------------------
\* value __exit__ returns; a true value would suppress the body's exception
exit_returns == None

\* __enter__: get_conn is called only while tableau_conn is unset (falsy).
Enter ==
    /\ depth < MaxDepth
    /\ Len(authLog) + depth + 2 <= MaxCalls
    /\ IF ~Truthy(tableau_conn)
       THEN LET r == get_conn(login, password, extra, jwt_token)
            IN  /\ outcome' = r
                /\ jwt_token' = r.token
                /\ IF r.raised = ""
                   THEN /\ authLog' = Append(authLog, "in")
                        /\ lastAuth' = r.call
                        /\ signedIn' = TRUE
                        /\ tableau_conn' = Handle
                        /\ depth' = depth + 1
                   ELSE UNCHANGED <<authLog, lastAuth, signedIn, tableau_conn, depth>>
       ELSE /\ outcome' = [raised |-> "", msg |-> <<>>, token |-> jwt_token, call |-> NoCall]
            /\ depth' = depth + 1
            /\ UNCHANGED <<jwt_token, authLog, lastAuth, signedIn, tableau_conn>>
    /\ UNCHANGED <<login, password, extra, excIn, excOut>>
    /\ UNCHANGED <<initVars, allVars, waitVars>>

\* A plausible slip: sign out only when the body completed normally.
ExitOnSuccessOnly ==
    /\ depth > 0
    /\ \E exc \in { None, "Err" } :
         /\ excIn' = exc
         /\ excOut' = IF Truthy(exit_returns) THEN None ELSE exc
         /\ IF exc = None
            THEN authLog' = Append(authLog, "out") /\ signedIn' = FALSE
            ELSE UNCHANGED <<authLog, signedIn>>
    /\ depth' = depth - 1
    /\ UNCHANGED <<login, password, extra, jwt_token, tableau_conn, lastAuth, outcome>>
    /\ UNCHANGED <<initVars, allVars, waitVars>>

\* __exit__(exc_type, exc_val, exc_tb) at the end of a with block whose body
\* ended normally (None) or with an exception: server.auth.sign_out().
Exit ==
    /\ depth > 0
    /\ \E exc \in { None, "Err" } :
         /\ excIn' = exc
         /\ excOut' = IF Truthy(exit_returns) THEN None ELSE exc
    /\ authLog' = Append(authLog, "out")
    /\ signedIn' = FALSE
    /\ depth' = depth - 1
    /\ UNCHANGED <<login, password, extra, jwt_token, tableau_conn, lastAuth, outcome>>
    /\ UNCHANGED <<initVars, allVars, waitVars>>

\* ------------------------------------------------------------------------
\* TableauHook.get_all
\* ------------------------------------------------------------------------
ResourceNames == { "jobs", "workbooks", "auth", "version", "nonexistent_resource" }

\* What getattr(self.server, name) finds: an endpoint with a get method
\* (jobs, workbooks), an attribute without one (auth, version), or nothing.
ServerAttr(name) ==
    CASE name \in { "jobs", "workbooks" } -> "endpoint"
      [] name \in { "auth", "version" } -> "plain"
      [] OTHER -> "absent"

NoPager == [resource |-> "<none>", page |-> 0]
NoAllOutcome ==
    [asked |-> "<none>", raised |-> "<not called>", name |-> "<none>", pager |-> NoPager]

\* A plausible slip: the new pager resumes where the latest pager stands.
get_all_shared_position(name, ps) ==
    CASE ServerAttr(name) = "absent" ->
             [raised |-> "ValueError", name |-> name, pager |-> NoPager]
      [] ServerAttr(name) = "plain" ->
             [raised |-> "AttributeError", name |-> "get", pager |-> NoPager]
      [] OTHER ->
             [raised |-> "", name |-> name,
              pager |-> [resource |-> name,
                         page |-> IF ps = <<>> THEN 0 ELSE ps[Len(ps)].page]]

\* get_all(name): getattr inside the try turns a missing attribute into the
\* ValueError naming the resource; resource.get, outside the try, raises
\* AttributeError on an attribute without a get; otherwise Pager(resource.get).
get_all(name, ps) ==
    CASE ServerAttr(name) = "absent" ->
             [raised |-> "ValueError", name |-> name, pager |-> NoPager]
      [] ServerAttr(name) = "plain" ->
             [raised |-> "AttributeError", name |-> "get", pager |-> NoPager]
      [] OTHER ->
             [raised |-> "", name |-> name, pager |-> [resource |-> name, page |-> 0]]

GetAll ==
    /\ allCalls < MaxCalls
    /\ \E name \in ResourceNames :
         LET r == get_all(name, pagers)
         IN  /\ r.raised = "" => Len(pagers) < MaxPagers
             /\ allOutcome' = [asked |-> name, raised |-> r.raised,
                               name |-> r.name, pager |-> r.pager]
             /\ pagers' = IF r.raised = "" THEN Append(pagers, r.pager) ELSE pagers
    /\ allCalls' = allCalls + 1
    /\ UNCHANGED pageRequests
    /\ UNCHANGED <<initVars, connVars, waitVars>>

\* The consumer of pager i asks for its next page: one page request.
PagerFetch ==
    /\ \E i \in 1..Len(pagers) :
         /\ pagers[i].page < MaxPages
         /\ pagers' = [pagers EXCEPT ![i].page = @ + 1]
    /\ pageRequests' = pageRequests + 1
    /\ UNCHANGED <<allCalls, allOutcome>>
    /\ UNCHANGED <<initVars, connVars, waitVars>>

\* ------------------------------------------------------------------------
\* TableauJobFinishCode, get_job_status, wait_for_state
\* ------------------------------------------------------------------------
TableauJobFinishCode == [PENDING |-> -1, SUCCESS |-> 0, ERROR |-> 1, CANCELED |-> 2]

Members == DOMAIN TableauJobFinishCode

\* finish codes the remote server may report, known or not
RemoteCodes == -2..3

Unbound == "<unbound>"

\* A plausible slip: an unmapped code falls back to a default member.
get_job_status_default(code) ==
    IF \E m \in Members : TableauJobFinishCode[m] = code
    THEN CHOOSE m \in Members : TableauJobFinishCode[m] = code
    ELSE "SUCCESS"

\* TableauJobFinishCode(int(finish_code)): the member with that value, or
\* the ValueError of the enum constructor (int() of an integer is itself).
get_job_status(code) ==
    IF \E m \in Members : TableauJobFinishCode[m] = code
    THEN CHOOSE m \in Members : TableauJobFinishCode[m] = code
    ELSE "ValueError"

\* A plausible slip: the loop condition forgets the target.
LoopCondPendingOnly(code, target) == code = "PENDING"

\* A plausible slip: the loop gives up after the first sleep.
LoopCondLimited(code, target) == code = "PENDING" /\ code # target /\ sleeps < 1

\* while finish_code == PENDING and finish_code != target_state
LoopCond(code, target) == code = "PENDING" /\ code # target

\* A plausible slip: the return value reports success, not the target.
ReturnValueSuccess(code, target) == code = "SUCCESS"

\* return finish_code == target_state
ReturnValue(code, target) == code = target

\* The remote server changes the job's finish code.
JobChange ==
    /\ \E c \in RemoteCodes \ { jobCode } : jobCode' = c
    /\ UNCHANGED <<pc, target_state, finish_code, fetches, sleeps, result>>
    /\ UNCHANGED <<initVars, connVars, allVars>>

\* wait_for_state(job_id, target_state, check_interval) is called.
Call ==
    /\ pc = "idle"
    /\ \E t \in Members : target_state' = t
    /\ pc' = "fetch"
    /\ UNCHANGED <<jobCode, finish_code, fetches, sleeps, result>>
    /\ UNCHANGED <<initVars, connVars, allVars>>

\* finish_code = self.get_job_status(job_id); an unmapped code raises.
Fetch ==
    /\ pc = "fetch"
    /\ fetches' = IF fetches <= MaxPolls THEN fetches + 1 ELSE fetches
    /\ LET c == get_job_status(jobCode)
       IN  IF c = "ValueError"
           THEN pc' = "raised" /\ UNCHANGED finish_code
           ELSE pc' = "test" /\ finish_code' = c
    /\ UNCHANGED <<jobCode, target_state, sleeps, result>>
    /\ UNCHANGED <<initVars, connVars, allVars>>

\* The while condition is evaluated: loop again, or return the comparison.
Test ==
    /\ pc = "test"
    /\ IF LoopCond(finish_code, target_state)
       THEN pc' = "sleep" /\ UNCHANGED result
       ELSE pc' = "returned" /\ result' = ReturnValue(finish_code, target_state)
    /\ UNCHANGED <<jobCode, target_state, finish_code, fetches, sleeps>>
    /\ UNCHANGED <<initVars, connVars, allVars>>

\* log.info and time.sleep(check_interval); the counters stop at their cap.
Sleep ==
    /\ pc = "sleep"
    /\ sleeps' = IF sleeps < MaxPolls THEN sleeps + 1 ELSE sleeps
    /\ pc' = "fetch"
    /\ UNCHANGED <<jobCode, target_state, finish_code, fetches, result>>
    /\ UNCHANGED <<initVars, connVars, allVars>>

\* ------------------------------------------------------------------------
\* Specifications.  Each starts from the inputs of the part of the hook it
\* exercises; the other parts are at rest (a constructed, unused hook).
\* ------------------------------------------------------------------------
\* Before __init__ runs, over every verify / cert option
HookInit ==
    /\ extraVerify \in VerifyOptions
    /\ extraCert \in CertOptions
    /\ httpOptions = Unset
    /\ login = "user"
    /\ password = "pw"
    /\ extra = [auth |-> Absent, jwt_file |-> Absent, jwt_token |-> Absent]
    /\ jwt_token = NoAttr
    /\ tableau_conn = None
    /\ signedIn = FALSE
    /\ authLog = <<>>
    /\ lastAuth = NoCall
    /\ outcome = NoOutcome
    /\ depth = 0
    /\ excIn = None
    /\ excOut = None
    /\ allCalls = 0
    /\ pagers = <<>>
    /\ pageRequests = 0
    /\ allOutcome = NoAllOutcome
    /\ jobCode = -1
    /\ pc = "idle"
    /\ target_state = Unbound
    /\ finish_code = Unbound
    /\ fetches = 0
    /\ sleeps = 0
    /\ result = FALSE

SpecInit == HookInit /\ [][Construct]_vars

\* A constructed hook, over every connection descriptor
ConnInit ==
    /\ extraVerify = KeyAbsent
    /\ extraCert = KeyAbsent
    /\ httpOptions = DefaultHttpOptions
    /\ login \in Logins
    /\ password \in Passwords
    /\ extra \in Extras
    /\ jwt_token = NoAttr
    /\ tableau_conn = None
    /\ signedIn = FALSE
    /\ authLog = <<>>
    /\ lastAuth = NoCall
    /\ outcome = NoOutcome
    /\ depth = 0
    /\ excIn = None
    /\ excOut = None
    /\ allCalls = 0
    /\ pagers = <<>>
    /\ pageRequests = 0
    /\ allOutcome = NoAllOutcome
    /\ jobCode = -1
    /\ pc = "idle"
    /\ target_state = Unbound
    /\ finish_code = Unbound
    /\ fetches = 0
    /\ sleeps = 0
    /\ result = FALSE

SpecConn == ConnInit /\ [][GetConn]_vars

NextScoped == Enter \/ Exit

SpecScoped == ConnInit /\ [][NextScoped]_vars

\* A constructed hook on which get_all has not been called
AllInit ==
    /\ extraVerify = KeyAbsent
    /\ extraCert = KeyAbsent
    /\ httpOptions = DefaultHttpOptions
    /\ login = "user"
    /\ password = "pw"
    /\ extra = [auth |-> Absent, jwt_file |-> Absent, jwt_token |-> Absent]
    /\ jwt_token = NoAttr
    /\ tableau_conn = None
    /\ signedIn = FALSE
    /\ authLog = <<>>
    /\ lastAuth = NoCall
    /\ outcome = NoOutcome
    /\ depth = 0
    /\ excIn = None
    /\ excOut = None
    /\ allCalls = 0
    /\ pagers = <<>>
    /\ pageRequests = 0
    /\ allOutcome = NoAllOutcome
    /\ jobCode = -1
    /\ pc = "idle"
    /\ target_state = Unbound
    /\ finish_code = Unbound
    /\ fetches = 0
    /\ sleeps = 0
    /\ result = FALSE

NextAll == GetAll \/ PagerFetch

SpecAll == AllInit /\ [][NextAll]_vars

\* A constructed hook and a remote job with any finish code
WaitInit ==
    /\ extraVerify = KeyAbsent
    /\ extraCert = KeyAbsent
    /\ httpOptions = DefaultHttpOptions
    /\ login = "user"
    /\ password = "pw"
    /\ extra = [auth |-> Absent, jwt_file |-> Absent, jwt_token |-> Absent]
    /\ jwt_token = NoAttr
    /\ tableau_conn = None
    /\ signedIn = FALSE
    /\ authLog = <<>>
    /\ lastAuth = NoCall
    /\ outcome = NoOutcome
    /\ depth = 0
    /\ excIn = None
    /\ excOut = None
    /\ allCalls = 0
    /\ pagers = <<>>
    /\ pageRequests = 0
    /\ allOutcome = NoAllOutcome
    /\ jobCode \in RemoteCodes
    /\ pc = "idle"
    /\ target_state = Unbound
    /\ finish_code = Unbound
    /\ fetches = 0
    /\ sleeps = 0
    /\ result = FALSE

NextWait == JobChange \/ Call \/ Fetch \/ Test \/ Sleep

SpecWait == WaitInit /\ [][NextWait]_vars

\* Every sleep and every status fetch of a call in progress completes.
FairWait == SpecWait /\ WF_vars(Fetch) /\ WF_vars(Test) /\ WF_vars(Sleep)

\* ------------------------------------------------------------------------
\* Properties
\* ------------------------------------------------------------------------

\* C1: whenever wait_for_state has returned, the value returned is true
\* exactly when the last finish code it observed equals target_state; so with
\* target SUCCESS the result is true after PENDING.. SUCCESS and false after
\* PENDING.. ERROR or CANCELED.
C1_ReturnsTargetReached ==
    pc = "returned" =>
        /\ finish_code \in Members
        /\ result <=> (finish_code = target_state)
        /\ (target_state = "SUCCESS" /\ finish_code \in { "ERROR", "CANCELED" }) => ~result
        /\ (target_state = "SUCCESS" /\ finish_code = "SUCCESS") => result

C1_Witness ==
    /\ pc = "returned"
    /\ target_state = "SUCCESS"
    /\ finish_code = "ERROR"
    /\ sleeps >= 1
    /\ ~result

C2_AtReturn ==
    pc = "returned" =>
        /\ finish_code # "PENDING" \/ finish_code = target_state
        /\ sleeps < MaxPolls => fetches = sleeps + 1
        /\ target_state = "PENDING" => (fetches = 1 /\ sleeps = 0)

C2_Step ==
    /\ (pc = "test" /\ pc' # pc) =>
          /\ pc' = "sleep" <=> (finish_code = "PENDING" /\ target_state # "PENDING")
          /\ pc' = "returned" <=> ~(finish_code = "PENDING" /\ target_state # "PENDING")
          /\ fetches' = fetches /\ sleeps' = sleeps
    /\ (fetches' # fetches) =>
          /\ fetches' = fetches + 1
          /\ sleeps' = sleeps
          /\ sleeps < MaxPolls => fetches = sleeps
    /\ (sleeps' # sleeps) =>
          /\ sleeps' = sleeps + 1
          /\ fetches' = fetches
          /\ fetches = sleeps + 1

\* C2: wait_for_state polls again exactly when the code just observed is
\* PENDING and the target is not PENDING; one initial fetch, then each further
\* fetch follows exactly one sleep; it returns without sleeping or fetching
\* again once the observed code is non-PENDING or the target; with target
\* PENDING it fetches once and never sleeps; fetches = sleeps + 1 at return.
C2_PollsWhilePending == []C2_AtReturn /\ [][C2_Step]_vars

C2_Witness ==
    /\ pc = "returned"
    /\ sleeps = 2
    /\ fetches = 3
    /\ target_state = "CANCELED"

PasswordSelected == login \notin { None, "" } /\ password \notin { None, "" }

TokenSelected == extra.auth = "jwt"

\* C3: get_conn signs in only when exactly one method is selected: both
\* selected ends in the configuration error, neither in the not-implemented
\* error, and in both cases no sign-in call is made on the server client.
C3_ExactlyOneMethod ==
    outcome # NoOutcome =>
        /\ (PasswordSelected /\ TokenSelected) =>
              (outcome.raised = "AirflowException" /\ authLog = <<>> /\ lastAuth = NoCall)
        /\ (~PasswordSelected /\ ~TokenSelected) =>
              (outcome.raised = "NotImplementedError" /\ authLog = <<>> /\ lastAuth = NoCall)
        /\ authLog # <<>> => (PasswordSelected # TokenSelected)
        /\ (PasswordSelected /\ ~TokenSelected) =>
              (outcome.raised = "" /\ lastAuth.method = "password")

C3_Witness ==
    /\ outcome.raised = "NotImplementedError"
    /\ login = "user"
    /\ password = ""
    /\ extra.auth = "basic"
    /\ authLog = <<>>

\* C4: with the token method selected and the password method not, get_conn
\* needs exactly one of the keys jwt_file and jwt_token: both gives a value
\* error ending "provided both.", neither one ending "none of them provided.",
\* with no token stored and no sign-in; exactly one signs in with the token
\* of that source (the file's text, or the literal).
C4_ExactlyOneTokenSource ==
    (outcome # NoOutcome /\ TokenSelected /\ ~PasswordSelected) =>
        /\ (extra.jwt_file # Absent /\ extra.jwt_token # Absent) =>
              /\ outcome.raised = "ValueError"
              /\ outcome.msg[Len(outcome.msg)] = "provided both."
              /\ jwt_token = NoAttr /\ authLog = <<>>
        /\ (extra.jwt_file = Absent /\ extra.jwt_token = Absent) =>
              /\ outcome.raised = "ValueError"
              /\ outcome.msg[Len(outcome.msg)] = "none of them provided."
              /\ jwt_token = NoAttr /\ authLog = <<>>
        /\ (extra.jwt_file # Absent /\ extra.jwt_token = Absent) =>
              /\ outcome.raised = ""
              /\ authLog # <<>>
              /\ lastAuth.method = "jwt"
              /\ lastAuth.jwt = (IF extra.jwt_file = "/a" THEN "tokA" ELSE "tokB")
        /\ (extra.jwt_file = Absent /\ extra.jwt_token # Absent) =>
              /\ outcome.raised = ""
              /\ authLog # <<>>
              /\ lastAuth.method = "jwt"
              /\ lastAuth.jwt = extra.jwt_token

C4_Witness ==
    /\ outcome.raised = ""
    /\ extra = [auth |-> "jwt", jwt_file |-> "/b", jwt_token |-> Absent]
    /\ lastAuth.jwt = "tokB"
    /\ login = "user"
    /\ password = None

\* C5: every exit of a scoped block whose entry succeeded, after a normal or
\* a failed body, calls sign_out on the server client, lets the body's error
\* through, and leaves no session live.
C5_ReleasedOnEveryExit ==
    [][ depth' < depth =>
          /\ authLog' = Append(authLog, "out")
          /\ excOut' = excIn'
          /\ ~signedIn' ]_vars

C5_Witness ==
    /\ depth = 0
    /\ authLog = <<"in", "out">>
    /\ excIn = "Err"
    /\ excOut = "Err"
    /\ ~signedIn

\* C6: get_job_status maps -1, 0, 1, 2 to PENDING, SUCCESS, ERROR, CANCELED
\* and fails on every other integer; a wait_for_state call that observes
\* such a code fails and returns neither true nor false.
C6_Step ==
    /\ (pc = "fetch" /\ pc' # pc) =>
          /\ jobCode = -1 => (pc' = "test" /\ finish_code' = "PENDING")
          /\ jobCode = 0 => (pc' = "test" /\ finish_code' = "SUCCESS")
          /\ jobCode = 1 => (pc' = "test" /\ finish_code' = "ERROR")
          /\ jobCode = 2 => (pc' = "test" /\ finish_code' = "CANCELED")
          /\ jobCode \notin { -1, 0, 1, 2 } => (pc' = "raised" /\ result' = result)
    /\ pc = "raised" => pc' = "raised"

C6_TotalOnKnownCodes == [][C6_Step]_vars

C6_Witness ==
    /\ pc = "raised"
    /\ jobCode = 3
    /\ sleeps >= 1
    /\ finish_code = "PENDING"

\* C7: parse_boolean gives true for every casing of y, yes, t, true, on, 1,
\* false for every casing of n, no, f, false, off, 0, and any other string
\* back unchanged, so such a verify option reaches the TLS options as given.
C7_OtherStringsUnchanged ==
    (httpOptions # Unset /\ extraVerify.t = "str") =>
        IF \E tok \in TrueTokens : extraVerify.s \in Casings(tok)
        THEN httpOptions.verify = PyBool(TRUE)
        ELSE IF \E tok \in FalseTokens : extraVerify.s \in Casings(tok)
        THEN httpOptions.verify = PyBool(FALSE)
        ELSE httpOptions.verify = PyStr(extraVerify.s)

\* C8 as stated: a missing attribute gives the value error naming the
\* resource, and any attribute that exists gives a fresh pager and no error.
C8_TwoOutcomes ==
    allOutcome # NoAllOutcome =>
        IF ServerAttr(allOutcome.asked) = "absent"
        THEN allOutcome.raised = "ValueError" /\ allOutcome.name = allOutcome.asked
        ELSE /\ allOutcome.raised = ""
             /\ allOutcome.pager = [resource |-> allOutcome.asked, page |-> 0]

C8_Outcomes ==
    allOutcome # NoAllOutcome =>
        CASE ServerAttr(allOutcome.asked) = "absent" ->
                 allOutcome.raised = "ValueError" /\ allOutcome.name = allOutcome.asked
          [] ServerAttr(allOutcome.asked) = "endpoint" ->
                 /\ allOutcome.raised = ""
                 /\ allOutcome.pager = [resource |-> allOutcome.asked, page |-> 0]
          [] OTHER -> allOutcome.raised = "AttributeError"

C8_Step ==
    allCalls' # allCalls =>
        /\ pageRequests' = pageRequests
        /\ IF allOutcome'.raised = ""
           THEN pagers' = Append(pagers, [resource |-> allOutcome'.asked, page |-> 0])
           ELSE pagers' = pagers

\* C8, amended: when the client has no attribute of that name get_all fails
\* with the value error naming the resource; when the attribute has a get
\* member it returns a pager over that listing and raises nothing; when the
\* attribute exists without a get member it fails with an attribute error
\* and returns no pager.  get_all issues no page request, and every pager it
\* returns starts at the first page, wherever earlier pagers stand.
C8_ThreeOutcomes == []C8_Outcomes /\ [][C8_Step]_vars

C8_Witness ==
    /\ Len(pagers) = 2
    /\ pagers[1].page = MaxPages
    /\ pagers[2].page = 0
    /\ allOutcome.asked = "auth"
    /\ allOutcome.raised = "AttributeError"

KnownCodes == { -1, 0, 1, 2 }

\* C9: a wait_for_state call with a target other than PENDING eventually
\* returns if the job's finish code (one of the four known codes throughout)
\* eventually stays non-PENDING, every sleep and fetch completing; and it
\* never returns while the finish code remains PENDING forever.
C9_ReturnsOnlyWhenJobEnds ==
    /\ ([](jobCode \in KnownCodes) /\ <>[](jobCode \in { 0, 1, 2 }))
          => ((pc # "idle" /\ target_state # "PENDING") ~> (pc = "returned"))
    /\ [](jobCode = -1)
          => [](target_state # "PENDING" => pc \notin { "returned", "raised" })

C9_Witness ==
    /\ pc = "returned"
    /\ target_state = "SUCCESS"
    /\ sleeps = MaxPolls
    /\ jobCode = 1

Alternates(log) ==
    \A i \in 1..Len(log) : log[i] = (IF i % 2 = 1 THEN "in" ELSE "out")

\* C10: over any sequence of scoped entries and exits on one hook, inside a
\* block whose entry succeeded the hook holds a live session, and sign-in and
\* sign-out calls strictly alternate, starting with a sign-in.
C10_LiveInsideBlock ==
    /\ depth > 0 => signedIn
    /\ Alternates(authLog)

====
